---- MODULE Spec2Model ----
(***************************************************************************)
(* Model of the 'job:transcribe' handler of src/main.js: the orchestration *)
(* of ffmpeg (audio conversion) and a Whisper command-line binary, the     *)
(* resolution of the transcript file, the stdout fallback, the diagnostic  *)
(* log and the cleanup of the temporary waveform.                          *)
(*                                                                         *)
(* A path is a record [dir, name]; a file name is a sequence of tokens,    *)
(* so "a.log.txt" is <<"a", ".log", ".txt">>.  A file's content and a      *)
(* captured stream are sequences of non-empty tokens; the empty sequence   *)
(* is the empty string.  The disk is the pair (fs, order): fs maps every   *)
(* existing path to its content, order lists the existing paths from the   *)
(* least to the most recently modified.                                    *)
(***************************************************************************)
EXTENDS Integers, Sequences, FiniteSets, TLC

\* Number of invocations of the handler a behaviour may hold.
NumJobs == 2

Jobs == 1..NumJobs

VARIABLES
    fs,           \* existing path -> content
    order,        \* existing paths, oldest modification first
    procs,        \* external processes spawned and not yet consumed
    pc,           \* job -> position of the handler (idle, awaiting, done)
    payload,      \* job -> the request the handler was invoked with
    i,            \* job -> loop index of the variants loop
    lastStdout,   \* job -> stdout captured from the latest attempt
    lastStderr,   \* job -> stderr captured from the latest attempt
    preExisting,  \* job -> the snapshot of .txt files taken before the loop
    results,      \* job -> the values the handler has returned (or thrown)
    trace,        \* job -> history: the operations the job performed, in order
    fsAtSnapshot  \* job -> history: fs as it was when the job took its snapshot

vars == <<fs, order, procs, pc, payload, i, lastStdout, lastStderr,
          preExisting, results, trace, fsAtSnapshot>>

(***************************************************************************)
(* Paths, strings                                                          *)
(***************************************************************************)

\* The directory every file of the model lives in.
Dir == "d"

\* The empty string / undefined path (falsy in the source).
NoPath == [dir |-> "", name |-> <<>>]

\* path.join(dir, name)
join(dir, name) == [dir |-> dir, name |-> name]

\* Tokens that start with a dot.
IsDotToken(t) == t \in {".mp3", ".wav", ".WAV", ".txt", ".TXT", ".log"}

\* String.prototype.toLowerCase, token by token.
toLowerCaseTok(t) ==
    CASE t = ".WAV" -> ".wav"
      [] t = ".TXT" -> ".txt"
      [] t = "A" -> "a"
      [] OTHER -> t

toLowerCase(s) == [k \in 1..Len(s) |-> toLowerCaseTok(s[k])]

\* path.extname: the last dot-suffix of the name, "" when there is none.
extname(p) ==
    IF Len(p.name) > 1 /\ IsDotToken(p.name[Len(p.name)])
    THEN p.name[Len(p.name)] ELSE ""

\* path.basename(p, ext): the name without the suffix ext.
basename(p, ext) ==
    IF ext # "" /\ Len(p.name) > 1 /\ p.name[Len(p.name)] = ext
    THEN SubSeq(p.name, 1, Len(p.name) - 1) ELSE p.name

\* path.dirname
dirname(p) == p.dir

\* normalize(p): path.normalize(p).toLowerCase()
normalize(p) == [dir |-> p.dir, name |-> toLowerCase(p.name)]

\* Line 68: desiredTxt = path.join(dir, `${base}.txt`)
desiredTxt(a) == join(dirname(a), basename(a, extname(a)) \o <<".txt">>)

\* Line 71: isWav
isWavExact(a) == extname(a) = ".wav"

isWav(a) == toLowerCaseTok(extname(a)) = ".wav"

\* Line 72: wavForWhisper
wavForWhisperKeepsExt(a) ==
    IF isWav(a) THEN a
    ELSE join(dirname(a), a.name \o <<"__whisper_tmp", ".wav">>)

wavForWhisper(a) ==
    IF isWav(a) THEN a
    ELSE join(dirname(a), basename(a, extname(a)) \o <<"__whisper_tmp", ".wav">>)

\* Line 131: desiredTxt.replace(/\.txt$/i, '.log.txt')
diagnosticPathAppended(p) == [dir |-> p.dir, name |-> p.name \o <<".log", ".txt">>]

diagnosticPath(p) ==
    IF Len(p.name) > 0 /\ toLowerCaseTok(p.name[Len(p.name)]) = ".txt"
    THEN [dir |-> p.dir, name |-> SubSeq(p.name, 1, Len(p.name) - 1) \o <<".log", ".txt">>]
    ELSE p

\* Whitespace tokens of a captured stream.
IsSpace(t) == t \in {" ", "\n"}

\* String.prototype.trim
RECURSIVE trimStart(_)
trimStart(s) == IF s # <<>> /\ IsSpace(Head(s)) THEN trimStart(Tail(s)) ELSE s

RECURSIVE trimEnd(_)
trimEnd(s) ==
    IF s # <<>> /\ IsSpace(s[Len(s)]) THEN trimEnd(SubSeq(s, 1, Len(s) - 1)) ELSE s

trim(s) == trimEnd(trimStart(s))

\* s || '(empty)'
orEmpty(s) == IF s # <<>> THEN s ELSE <<"(empty)">>

\* The 'utf8' decoding of bytes into a string (readFileSync(p, 'utf8'), the
\* captures of execFile): a byte sequence that is not UTF-8, written 0xFF,
\* becomes the replacement character U+FFFD.
utf8Decode(bytes) == [k \in 1..Len(bytes) |-> IF bytes[k] = "0xFF" THEN "U+FFFD" ELSE bytes[k]]

\* The 'utf8' encoding of a string into bytes (writeFileSync(p, s, 'utf8')): a
\* lone surrogate, written U+D800, is encoded as U+FFFD.
utf8Encode(str) == [k \in 1..Len(str) |-> IF str[k] = "U+D800" THEN "U+FFFD" ELSE str[k]]

(***************************************************************************)
(* The file system                                                         *)
(***************************************************************************)

Remove(seq, p) == SelectSeq(seq, LAMBDA q : q # p)

\* F(e), with e evaluated once.
With(e, F(_)) == CHOOSE r \in {F(x) : x \in {e}} : TRUE

\* fs.existsSync
existsSync(w, p) == p \in DOMAIN w.fs

\* fs.statSync(p).mtimeMs: the rank of p in the modification order.
mtimeMs(w, p) == CHOOSE k \in 1..Len(w.order) : w.order[k] = p

\* fs.writeFileSync / a write by an external process.
writeFile(w, p, data) ==
    [fs |-> (p :> data) @@ w.fs, order |-> Append(Remove(w.order, p), p)]

\* fs.unlinkSync
unlinkFile(w, p) ==
    [fs |-> [q \in (DOMAIN w.fs) \ {p} |-> w.fs[q]], order |-> Remove(w.order, p)]

\* fs.readFileSync(p, 'utf8')
readFileSync(w, p) == utf8Decode(w.fs[p])

\* fs.writeFileSync(p, text, 'utf8') that completes.
writeFileSyncTrimmed(w, p, text) == writeFile(w, p, utf8Encode(trim(text)))

writeFileSync(w, p, text) == writeFile(w, p, utf8Encode(text))

\* What a writeFileSync that throws leaves on the disk: nothing when the file
\* could not be opened (fault "write"), the file truncated and a part of the
\* data when the error came while writing (fault "partial").
failedWrite(w, p, text, fault) ==
    IF fault = "partial"
    THEN writeFile(w, p, SubSeq(utf8Encode(text), 1, Len(text) - 1))
    ELSE w

\* Line 184: fileNonEmpty
fileNonEmptyExistsOnly(w, p) == existsSync(w, p)

fileNonEmpty(w, p) == IF existsSync(w, p) THEN Len(w.fs[p]) > 0 ELSE FALSE

\* fs.unlinkSync as the handler calls it: how the call ends (it throws when
\* the file is missing or when fails says the platform refuses) and the disk
\* it leaves.
unlinkSync(w, p, fails) ==
    IF existsSync(w, p) /\ ~fails
    THEN [w |-> unlinkFile(w, p), thrown |-> FALSE, ev |-> <<[op |-> "unlink", path |-> p, n |-> 0]>>]
    ELSE [w |-> w, thrown |-> TRUE, ev |-> <<[op |-> "unlink failed", path |-> p, n |-> 0]>>]

\* Line 185: safeUnlink: try { fs.unlinkSync(p) } catch {}
safeUnlinkNoCatch(w, p, fails) == unlinkSync(w, p, fails)

safeUnlink(w, p, fails) == [unlinkSync(w, p, fails) EXCEPT !.thrown = FALSE]

\* Line 187: cleanupTemp
cleanupTempNoCatch(w, wavPath, wasWavInput, fails) ==
    IF ~wasWavInput THEN unlinkSync(w, wavPath, fails)
    ELSE [w |-> w, thrown |-> FALSE, ev |-> <<>>]

cleanupTemp(w, wavPath, wasWavInput, fails) ==
    IF ~wasWavInput THEN safeUnlink(w, wavPath, fails)
    ELSE [w |-> w, thrown |-> FALSE, ev |-> <<>>]

\* readdirSync returns the entries in an order the platform chooses.
RECURSIVE SetToSeq(_)
SetToSeq(S) ==
    IF S = {} THEN <<>>
    ELSE LET x == CHOOSE x \in S : TRUE IN <<x>> \o SetToSeq(S \ {x})

\* Line 173: listTxt
listTxt(w, dir) ==
    SelectSeq(SetToSeq({p \in DOMAIN w.fs : p.dir = dir}),
              LAMBDA p : Len(p.name) > 0 /\ toLowerCaseTok(p.name[Len(p.name)]) = ".txt")

\* Line 177: newestByMtime, the loop over paths with (best, bestT).
RECURSIVE newestLoop(_, _, _, _)
newestLoop(w, paths, best, bestT) ==
    IF paths = <<>> THEN best
    ELSE LET p == Head(paths) IN
         IF existsSync(w, p) /\ mtimeMs(w, p) > bestT
         THEN newestLoop(w, Tail(paths), p, mtimeMs(w, p))
         ELSE newestLoop(w, Tail(paths), best, bestT)

newestByMtime(w, paths) == newestLoop(w, paths, NoPath, -1)

\* The rendering of a path inside a string.
pathString(p) == <<p.dir, "/">> \o p.name

\* Whether the string s contains the string t.
Contains(s, t) ==
    \E k \in 0..(Len(s) - Len(t)) : SubSeq(s, k + 1, k + Len(t)) = t

(***************************************************************************)
(* The handler: lines 59-142, cut at its await points                      *)
(***************************************************************************)

Ev(op, p, n) == [op |-> op, path |-> p, n |-> n]

\* The handler's local variables that outlive an await.
Locals(idx, out, err, pre) == [i |-> idx, lastStdout |-> out, lastStderr |-> err, preExisting |-> pre]

\* How a run of the handler from one await point ends: it returns a value,
\* throws into the catch of line 139, or suspends on an external process.
\* spawn holds the processes the run started.
Return(w, ev, loc, val) == [kind |-> "return", w |-> w, ev |-> ev, loc |-> loc, val |-> val, spawn |-> {}]
Throw(w, ev, loc, err) == [kind |-> "throw", w |-> w, ev |-> ev, loc |-> loc, val |-> err, spawn |-> {}]
Await(w, ev, loc, proc) == [kind |-> "await", w |-> w, ev |-> ev, loc |-> loc, val |-> proc, spawn |-> {proc}]

\* The Error a failing fs call throws.
FsError(op, p) == [name |-> "Error", message |-> <<"EACCES: permission denied, ", op, " ">> \o pathString(p)]

\* Line 140: err?.message || String(err)
errorText(err) == IF err.message # <<>> THEN err.message ELSE <<err.name>>

\* Lines 139-141: the catch of the handler.
Catch(err) == [ok |-> FALSE, error |-> errorText(err)]

\* The platform the program runs on (process.platform).
Platform == "linux"

\* Lines 80-82: bin
bin(w, pl) ==
    IF pl.whisperBin # NoPath /\ existsSync(w, pl.whisperBin) THEN pathString(pl.whisperBin)
    ELSE IF Platform = "win32" THEN <<"whisper-cli">> ELSE <<"whisper">>

\* Lines 84-87: common
common(w, pl) ==
    (IF pl.language # "" THEN <<<<"-l">>, <<pl.language>>>> ELSE <<>>)
    \o (IF pl.noTimestamps THEN <<<<"--no-timestamps">>>> ELSE <<>>)
    \o (IF pl.modelPath # NoPath /\ existsSync(w, pl.modelPath)
        THEN <<<<"-m">>, pathString(pl.modelPath)>> ELSE <<>>)

\* Lines 89-94: variants
variants(w, pl) ==
    LET a == pl.audioPath
        wav == pathString(wavForWhisper(a))
        txt == pathString(desiredTxt(a))
    IN << <<<<"-f">>, wav, <<"-otxt">>, <<"-of">>, txt>> \o common(w, pl),
          <<<<"-f">>, wav, <<"-otxt">>, <<"--output-file">>, txt>> \o common(w, pl),
          <<<<"-f">>, wav, <<"-otxt">>, <<"-o">>, <<dirname(a)>>>> \o common(w, pl),
          <<<<"-f">>, wav, <<"-otxt">>>> \o common(w, pl) >>

\* Line 100: the bound of the loop, variants.length
loopContinuesNever(w, pl, idx) == FALSE

loopContinues(w, pl, idx) == idx < Len(variants(w, pl))

\* Lines 148-151: the spawn of ffmpeg.
ffmpegSpawn(inputPath, outWavPath) ==
    [kind |-> "ffmpeg", n |-> 0, out |-> outWavPath,
     bin |-> IF Platform = "win32" THEN <<"ffmpeg.exe">> ELSE <<"ffmpeg">>,
     args |-> <<<<"-y">>, <<"-i">>, pathString(inputPath), <<"-ar">>, <<"16000">>,
                <<"-ac">>, <<"1">>, <<"-f">>, <<"wav">>, pathString(outWavPath)>>]

\* Lines 101-102, 164: the spawn of the transcriber for variants[n].
whisperSpawnReversed(w, pl, n) ==
    [kind |-> "whisper", n |-> n, out |-> NoPath,
     bin |-> bin(w, pl), args |-> variants(w, pl)[Len(variants(w, pl)) - n]]

whisperSpawn(w, pl, n) ==
    [kind |-> "whisper", n |-> n, out |-> NoPath,
     bin |-> bin(w, pl), args |-> variants(w, pl)[n + 1]]

\* Line 97: preExisting = new Set(listTxt(dir))
snapshot(w, dir) == {listTxt(w, dir)[k] : k \in 1..Len(listTxt(w, dir))}

\* Lines 80-102: the snapshot and the first iteration up to its await.
BeginLoop(w, pl, ev) ==
    Await(w,
          ev \o <<Ev("snapshot", join(dirname(pl.audioPath), <<>>), 0), Ev("spawn whisper", NoPath, 0)>>,
          Locals(0, <<>>, <<>>, snapshot(w, dirname(pl.audioPath))),
          whisperSpawn(w, pl, 0))

\* Lines 61-77: from the entry of the handler to its first await.
TryStartNoAwait(w, pl, loc) ==
    LET a == pl.audioPath
        ev0 == <<Ev("existsSync", a, 0)>>
    IN IF a = NoPath \/ ~existsSync(w, a)
       THEN Return(w, IF a = NoPath THEN <<>> ELSE ev0, loc,
                   [ok |-> FALSE, error |-> <<"Audio path is empty or not found.">>])
       ELSE IF ~isWav(a)
       THEN [BeginLoop(w, pl, ev0 \o <<Ev("spawn ffmpeg", wavForWhisper(a), 0)>>)
                EXCEPT !.spawn = @ \cup {ffmpegSpawn(a, wavForWhisper(a))}]
       ELSE BeginLoop(w, pl, ev0)

TryStartNoExistsCheck(w, pl, loc) ==
    LET a == pl.audioPath
        ev0 == <<Ev("existsSync", a, 0)>>
    IN IF a = NoPath
       THEN Return(w, <<>>, loc, [ok |-> FALSE, error |-> <<"Audio path is empty or not found.">>])
       ELSE IF ~isWav(a)
       THEN Await(w, ev0 \o <<Ev("spawn ffmpeg", wavForWhisper(a), 0)>>, loc,
                  ffmpegSpawn(a, wavForWhisper(a)))
       ELSE BeginLoop(w, pl, ev0)

TryStart(w, pl, loc) ==
    LET a == pl.audioPath
        ev0 == <<Ev("existsSync", a, 0)>>
    IN IF a = NoPath \/ ~existsSync(w, a)
       THEN Return(w, IF a = NoPath THEN <<>> ELSE ev0, loc,
                   [ok |-> FALSE, error |-> <<"Audio path is empty or not found.">>])
       ELSE IF ~isWav(a)
       THEN Await(w, ev0 \o <<Ev("spawn ffmpeg", wavForWhisper(a), 0)>>, loc,
                  ffmpegSpawn(a, wavForWhisper(a)))
       ELSE BeginLoop(w, pl, ev0)

\* Lines 154-157: how the promise of convertToWav settles once the ffmpeg
\* process p has ended: the 'error' event rejects, the 'close' event
\* resolves or rejects.
convertOutcomeNoElse(w, p) ==
    IF p.status = "spawnerror" THEN "reject"
    ELSE IF p.code = "0" /\ existsSync(w, p.out) /\ fileNonEmpty(w, p.out) THEN "resolve"
    ELSE "pending"

convertOutcome(w, p) ==
    IF p.status = "spawnerror" THEN "reject"
    ELSE IF p.code = "0" /\ existsSync(w, p.out) /\ fileNonEmpty(w, p.out) THEN "resolve"
    ELSE "reject"

\* Lines 154, 157: the message of the Error convertToWav rejects with.
convertError(p) ==
    IF p.status = "spawnerror"
    THEN <<"ffmpeg not found. Please install ffmpeg and make sure it's on PATH. (", "spawn ffmpeg ENOENT", ")">>
    ELSE <<"ffmpeg failed (code ", p.code, "). ">> \o p.stderr

\* Lines 76-102: the handler from the settling of convertToWav on.
AfterConvert(w, pl, loc, p) ==
    IF convertOutcome(w, p) = "resolve"
    THEN BeginLoop(w, pl, <<>>)
    ELSE Throw(w, <<>>, loc, [name |-> "Error", message |-> convertError(p)])

\* Lines 162-167: what execFileSafe resolves with; p is the ended process.
execFileSafe(p) == [stdout |-> utf8Decode(p.stdout), stderr |-> utf8Decode(p.stderr)]

\* cleanupTemp(wavForWhisper, isWav); return val  (lines 106-108, 116-118,
\* 125-127, 136-137)
CleanupAndReturn(w, pl, ev, loc, fault, val) ==
    With(cleanupTemp(w, wavForWhisper(pl.audioPath), isWav(pl.audioPath), fault = "unlink"),
         LAMBDA c : IF c.thrown
                    THEN Throw(c.w, ev \o c.ev, loc, FsError("unlink", wavForWhisper(pl.audioPath)))
                    ELSE Return(c.w, ev \o c.ev, loc, val))

\* Lines 132-135: the text of the diagnostic log.
diagnosticText(out, err) ==
    <<"--- STDOUT ---\n">> \o orEmpty(out) \o <<"\n\n">>
    \o <<"--- STDERR ---\n">> \o orEmpty(err) \o <<"\n">>

\* Line 123: lastStdout && lastStdout.trim().length > 0
stdoutUsableUntrimmed(out) == out # <<>> /\ Len(out) > 0

stdoutUsable(out) == out # <<>> /\ Len(trim(out)) > 0

\* Lines 122-137: the stdout fallback and the diagnostic log.  fault names the
\* fs call that throws during this run of the handler, if any.
Fallback(w, pl, loc, ev, fault) ==
    LET txt == desiredTxt(pl.audioPath)
        diagnostic == diagnosticPath(txt)
    IN IF stdoutUsable(loc.lastStdout)
       THEN IF fault \in {"write", "partial"}
            THEN Throw(failedWrite(w, txt, loc.lastStdout, fault),
                       ev \o <<Ev("writeFile failed", txt, loc.i)>>, loc, FsError("open", txt))
            ELSE CleanupAndReturn(writeFileSync(w, txt, loc.lastStdout), pl,
                                  ev \o <<Ev("writeFile", txt, loc.i)>>, loc, fault,
                                  [ok |-> TRUE, outputPath |-> txt, note |-> <<"Saved from stdout fallback.">>])
       ELSE IF fault \in {"write", "partial"}
            THEN Throw(failedWrite(w, diagnostic, diagnosticText(loc.lastStdout, loc.lastStderr), fault),
                       ev \o <<Ev("writeFile failed", diagnostic, loc.i)>>, loc, FsError("open", diagnostic))
            ELSE CleanupAndReturn(writeFileSync(w, diagnostic, diagnosticText(loc.lastStdout, loc.lastStderr)), pl,
                                  ev \o <<Ev("writeFile", diagnostic, loc.i)>>, loc, fault,
                                  [ok |-> FALSE,
                                   error |-> <<"Transcription finished but no .txt file was found. Saved logs to ">>
                                             \o pathString(diagnostic)])

\* Line 105: the direct match.
directMatchNever(w, pl, pre) == FALSE

directMatchNewOnly(w, pl, pre) ==
    /\ existsSync(w, desiredTxt(pl.audioPath)) /\ fileNonEmpty(w, desiredTxt(pl.audioPath))
    /\ desiredTxt(pl.audioPath) \notin pre

directMatch(w, pl, pre) ==
    existsSync(w, desiredTxt(pl.audioPath)) /\ fileNonEmpty(w, desiredTxt(pl.audioPath))

\* Line 110: the .txt files that are not in the snapshot.
newTxtUnfiltered(w, pl, pre) == listTxt(w, dirname(pl.audioPath))

newTxt(w, pl, pre) == SelectSeq(listTxt(w, dirname(pl.audioPath)), LAMBDA p : p \notin pre)

\* Lines 113-118: the heuristic match on newest.
Heuristic(w, pl, loc, ev, fault, newest) ==
    LET txt == desiredTxt(pl.audioPath)
        ev1 == ev \o <<Ev("readFile", newest, loc.i), Ev("writeFile", txt, loc.i)>>
    IN IF fault = "read"
       THEN Throw(w, ev \o <<Ev("readFile failed", newest, loc.i)>>, loc, FsError("open", newest))
       ELSE IF fault \in {"write", "partial"}
       THEN Throw(failedWrite(w, txt, readFileSync(w, newest), fault),
                  ev \o <<Ev("readFile", newest, loc.i), Ev("writeFile failed", txt, loc.i)>>,
                  loc, FsError("open", txt))
       ELSE With(IF normalize(newest) # normalize(txt)
                 THEN safeUnlink(writeFileSync(w, txt, readFileSync(w, newest)), newest, fault = "unlink")
                 ELSE [w |-> writeFileSync(w, txt, readFileSync(w, newest)), thrown |-> FALSE, ev |-> <<>>],
                 LAMBDA u : IF u.thrown
                            THEN Throw(u.w, ev1 \o u.ev, loc, FsError("unlink", newest))
                            ELSE CleanupAndReturn(u.w, pl, ev1 \o u.ev, loc, fault,
                                                  [ok |-> TRUE, outputPath |-> txt]))

\* Lines 103-137: the handler from the settling of execFileSafe for
\* variants[loc.i] on: the resolution of this attempt, then the next attempt,
\* or after the last one the fallback.
AfterAttempt(w, pl, loc0, p, fault) ==
    LET a == pl.audioPath
        txt == desiredTxt(a)
        loc == Locals(loc0.i, execFileSafe(p).stdout, execFileSafe(p).stderr, loc0.preExisting)
        ev0 == <<Ev("check direct", txt, loc.i)>>
        ev1 == ev0 \o <<Ev("readdir", join(dirname(a), <<>>), loc.i)>>
        next == Locals(loc.i + 1, loc.lastStdout, loc.lastStderr, loc.preExisting)
    IN IF directMatch(w, pl, loc.preExisting)
       THEN CleanupAndReturn(w, pl, ev0, loc, fault, [ok |-> TRUE, outputPath |-> txt])
       ELSE With(newestByMtime(w, newTxt(w, pl, loc.preExisting)),
                 LAMBDA newest :
                    IF newest # NoPath /\ fileNonEmpty(w, newest)
                    THEN Heuristic(w, pl, loc, ev1, fault, newest)
                    ELSE IF loopContinues(w, pl, next.i)
                    THEN Await(w, ev1 \o <<Ev("spawn whisper", NoPath, next.i)>>, next,
                               whisperSpawn(w, pl, next.i))
                    ELSE Fallback(w, pl, next, ev1, fault))

(***************************************************************************)
(* The environment: requests, the behaviour of the external programs, and  *)
(* the failures of fs calls                                                *)
(***************************************************************************)

AudioMp3 == join(Dir, <<"a", ".mp3">>)
AudioWav == join(Dir, <<"a", ".wav">>)
AudioWAV == join(Dir, <<"a", ".WAV">>)
AudioGone == join(Dir, <<"gone", ".mp3">>)

Request(a) == [audioPath |-> a, whisperBin |-> NoPath, modelPath |-> NoPath,
               language |-> "en", noTimestamps |-> TRUE]

\* The files a transcriber may write for a request: the canonical output, the
\* name of the waveform it was given with .txt appended, and a name that
\* differs from the canonical one in case only.
WhisperTarget(pl, kind) ==
    CASE kind = "canonical" -> desiredTxt(pl.audioPath)
      [] kind = "appended" -> join(dirname(pl.audioPath), wavForWhisper(pl.audioPath).name \o <<".txt">>)
      [] kind = "uppercase" -> join(dirname(pl.audioPath), <<"A", ".TXT">>)

NoWrite == [target |-> NoPath, data |-> <<>>]

\* How a transcriber process ends and the bytes it printed: the exit code
\* ("null" when the 10-minute timeout killed it), stdout and stderr.
SpawnError == [status |-> "spawnerror", code |-> "ENOENT", stdout |-> <<>>, stderr |-> <<>>]

WhisperEndings ==
    {[status |-> "exited", code |-> "0", stdout |-> <<>>, stderr |-> <<>>],
     [status |-> "exited", code |-> "0", stdout |-> <<" ", "text", "\n">>, stderr |-> <<>>],
     [status |-> "exited", code |-> "1", stdout |-> <<" ">>, stderr |-> <<"warn">>],
     [status |-> "exited", code |-> "1", stdout |-> <<" ", "0xFF", "\n">>, stderr |-> <<"warn">>],
     [status |-> "exited", code |-> "null", stdout |-> <<>>, stderr |-> <<"warn">>]}

\* What a transcriber process does while it runs: it may write one file (and
\* before it another one: also), it prints and it ends; or it cannot be
\* spawned at all, and then the callback of execFile gets the error and empty
\* captures.
WhisperBehaviours(pl, kinds, texts) ==
    {[status |-> e.status, code |-> e.code, also |-> NoWrite, write |-> wr,
      stdout |-> e.stdout, stderr |-> e.stderr] :
        e \in WhisperEndings,
        wr \in {NoWrite} \cup {[target |-> WhisperTarget(pl, k), data |-> d] : k \in kinds, d \in texts}}
    \cup {[status |-> e.status, code |-> e.code,
           also |-> [target |-> WhisperTarget(pl, "appended"), data |-> <<"hello">>],
           write |-> [target |-> WhisperTarget(pl, "uppercase"), data |-> <<>>],
           stdout |-> e.stdout, stderr |-> e.stderr] :
        e \in {x \in WhisperEndings : x.code = "0" /\ {"appended", "uppercase"} \subseteq kinds}}
    \cup {[status |-> "spawnerror", code |-> "ENOENT", also |-> NoWrite, write |-> NoWrite,
           stdout |-> <<>>, stderr |-> <<>>]}

Ending(b) == [status |-> b.status, code |-> b.code, stdout |-> b.stdout, stderr |-> b.stderr]

\* What an ffmpeg process does: it may leave an output file (complete, partial
\* or empty), prints to stderr and exits, or it cannot be spawned.
FfmpegBehaviours ==
    {[status |-> "exited", code |-> c, write |-> wr, stderr |-> e] :
        c \in {"0", "1"}, wr \in {"none", "empty", "data"}, e \in {<<"Invalid data found">>}}
    \cup {[status |-> "spawnerror", code |-> "ENOENT", write |-> "none", stderr |-> <<>>]}

\* The fs call that throws during one run of the handler, if any.
Faults == {"none", "read", "write", "partial", "unlink"}

\* Files that may lie in the directory before the first request.
OldTxt == join(Dir, <<"a", ".txt">>)
OldOther == join(Dir, <<"a", ".wav", ".txt">>)
OldLog == join(Dir, <<"a", ".log", ".txt">>)

Leftovers == {OldTxt, OldOther, OldLog}

\* One request, every behaviour of the environment.
FullEnv == [jobs |-> {1},
            audio |-> {AudioMp3, AudioWav, AudioWAV, AudioGone, NoPath},
            leftovers |-> {{}} \cup {{p} : p \in Leftovers},
            ffmpeg |-> FfmpegBehaviours,
            endings |-> WhisperEndings \cup {SpawnError},
            targets |-> {"canonical", "appended", "uppercase"},
            texts |-> {<<>>, <<"hello">>, <<"0xFF">>},
            faults |-> Faults]

\* Overlapping requests, each against a quiet environment: ffmpeg succeeds or
\* fails without output, the transcriber writes the canonical output or
\* nothing, and no fs call fails.
OverlapEnv == [jobs |-> Jobs,
               audio |-> {AudioMp3, AudioWav},
               leftovers |-> {{}},
               ffmpeg |-> {b \in FfmpegBehaviours : b.status = "exited" /\
                              ((b.code = "0" /\ b.write = "data") \/ (b.code = "1" /\ b.write = "none"))},
               endings |-> {e \in WhisperEndings : e.code = "0" /\ e.stdout = <<>>},
               targets |-> {"canonical"},
               texts |-> {<<"hello">>},
               faults |-> {"none"}]

(***************************************************************************)
(* State machine                                                           *)
(***************************************************************************)

World == [fs |-> fs, order |-> order]

LocalsOf(j) == Locals(i[j], lastStdout[j], lastStderr[j], preExisting[j])

InitFor(E) ==
    /\ \E old \in E.leftovers :
         /\ fs = [p \in {AudioMp3, AudioWav, AudioWAV} \cup old |->
                     IF p \in old THEN <<"old">> ELSE <<"audio">>]
         /\ order = SetToSeq({AudioMp3, AudioWav, AudioWAV}) \o SetToSeq(old)
    /\ procs = {}
    /\ pc = [j \in Jobs |-> "idle"]
    /\ payload = [j \in Jobs |-> Request(NoPath)]
    /\ i = [j \in Jobs |-> 0]
    /\ lastStdout = [j \in Jobs |-> <<>>]
    /\ lastStderr = [j \in Jobs |-> <<>>]
    /\ preExisting = [j \in Jobs |-> {}]
    /\ results = [j \in Jobs |-> <<>>]
    /\ trace = [j \in Jobs |-> <<>>]
    /\ fsAtSnapshot = [j \in Jobs |-> <<>>]

\* A process a job spawned, before it has run.
Spawned(j, sp) ==
    [job |-> j, kind |-> sp.kind, n |-> sp.n, out |-> sp.out, bin |-> sp.bin, args |-> sp.args,
     status |-> "running", code |-> "", stdout |-> <<>>, stderr |-> <<>>]

\* The effect of one run of the handler of job j; used is the set of
\* processes whose completion this run consumed.
Apply(j, eff, used) ==
    /\ fs' = eff.w.fs
    /\ order' = eff.w.order
    /\ trace' = [trace EXCEPT ![j] = @ \o eff.ev]
    /\ fsAtSnapshot' = IF \E k \in 1..Len(eff.ev) : eff.ev[k].op = "snapshot"
                       THEN [fsAtSnapshot EXCEPT ![j] = fs] ELSE fsAtSnapshot
    /\ i' = [i EXCEPT ![j] = eff.loc.i]
    /\ lastStdout' = [lastStdout EXCEPT ![j] = eff.loc.lastStdout]
    /\ lastStderr' = [lastStderr EXCEPT ![j] = eff.loc.lastStderr]
    /\ preExisting' = [preExisting EXCEPT ![j] = eff.loc.preExisting]
    /\ CASE eff.kind = "return" ->
              /\ results' = [results EXCEPT ![j] = Append(@, eff.val)]
              /\ pc' = [pc EXCEPT ![j] = "done"]
              /\ procs' = procs \ used
         [] eff.kind = "throw" ->
              /\ results' = [results EXCEPT ![j] = Append(@, Catch(eff.val))]
              /\ pc' = [pc EXCEPT ![j] = "done"]
              /\ procs' = procs \ used
         [] eff.kind = "await" ->
              /\ results' = results
              /\ pc' = [pc EXCEPT ![j] = IF eff.val.kind = "ffmpeg" THEN "awaitConvert" ELSE "awaitWhisper"]
              /\ procs' = (procs \ used) \cup {Spawned(j, sp) : sp \in eff.spawn}

\* ipcMain.handle('job:transcribe'): a request arrives (lines 59-77).
Invoke(j, a) ==
    /\ pc[j] = "idle"
    /\ payload' = [payload EXCEPT ![j] = Request(a)]
    /\ \E eff \in {TryStart(World, Request(a), LocalsOf(j))} : Apply(j, eff, {})

\* An ffmpeg process runs to its end.
FfmpegRun(p, b) ==
    /\ p \in procs /\ p.kind = "ffmpeg" /\ p.status = "running"
    /\ LET w == CASE b.write = "none" -> World
                  [] b.write = "empty" -> writeFile(World, p.out, <<>>)
                  [] b.write = "data" -> writeFile(World, p.out, <<"RIFF">>)
       IN /\ fs' = w.fs
          /\ order' = w.order
    /\ procs' = (procs \ {p}) \cup
                {[p EXCEPT !.status = b.status, !.code = b.code, !.stderr = b.stderr]}
    /\ UNCHANGED <<pc, payload, i, lastStdout, lastStderr, preExisting, results, trace, fsAtSnapshot>>

\* The 'error' or 'close' event of ffmpeg settles convertToWav (lines 154-157)
\* and the handler runs on (lines 76-102).
ConvertSettled(j, p) ==
    /\ pc[j] = "awaitConvert"
    /\ p \in procs /\ p.job = j /\ p.kind = "ffmpeg" /\ p.status # "running"
    /\ convertOutcome(World, p) # "pending"
    /\ UNCHANGED payload
    /\ \E eff \in {AfterConvert(World, payload[j], LocalsOf(j), p)} : Apply(j, eff, {p})

\* A transcriber process runs to its end.
WhisperRun(p, b) ==
    /\ p \in procs /\ p.kind = "whisper" /\ p.status = "running"
    /\ LET w1 == IF b.also.target = NoPath THEN World
                 ELSE writeFile(World, b.also.target, b.also.data)
           w == IF b.write.target = NoPath THEN w1
                ELSE writeFile(w1, b.write.target, b.write.data)
       IN /\ fs' = w.fs
          /\ order' = w.order
    /\ procs' = (procs \ {p}) \cup
                {[p EXCEPT !.status = b.status, !.code = b.code,
                           !.stdout = b.stdout, !.stderr = b.stderr]}
    /\ UNCHANGED <<pc, payload, i, lastStdout, lastStderr, preExisting, results, trace, fsAtSnapshot>>

\* The callback of execFile resolves execFileSafe (lines 164-167) and the
\* handler runs on (lines 103-137).
AttemptSettled(j, p, fault) ==
    /\ pc[j] = "awaitWhisper"
    /\ p \in procs /\ p.job = j /\ p.kind = "whisper" /\ p.n = i[j] /\ p.status # "running"
    /\ UNCHANGED payload
    /\ \E eff \in {AfterAttempt(World, payload[j], LocalsOf(j), p, fault)} : Apply(j, eff, {p})

NextFor(E) ==
    \/ \E j \in E.jobs, a \in E.audio : Invoke(j, a)
    \/ \E p \in procs, b \in E.ffmpeg : FfmpegRun(p, b)
    \/ \E j \in E.jobs, p \in procs : ConvertSettled(j, p)
    \/ \E p \in procs : \E b \in WhisperBehaviours(payload[p.job], E.targets, E.texts) :
          /\ Ending(b) \in E.endings
          /\ WhisperRun(p, b)
    \/ \E j \in E.jobs, p \in procs, fault \in E.faults : AttemptSettled(j, p, fault)

\* The steps that do not wait for a request: the external processes end,
\* and the event loop runs the continuation of the handler.
Progress(E) ==
    \/ \E p \in procs, b \in E.ffmpeg : FfmpegRun(p, b)
    \/ \E j \in E.jobs, p \in procs : ConvertSettled(j, p)
    \/ \E p \in procs : \E b \in WhisperBehaviours(payload[p.job], E.targets, E.texts) :
          /\ Ending(b) \in E.endings
          /\ WhisperRun(p, b)
    \/ \E j \in E.jobs, p \in procs, fault \in E.faults : AttemptSettled(j, p, fault)

\* One request at a time.
Init == InitFor(FullEnv)
Next == NextFor(FullEnv)
Spec == Init /\ [][Next]_vars

\* One request with every spawned process ending and every continuation of
\* the handler run, in a directory that holds nothing but the audio files.
LiveEnv == [FullEnv EXCEPT !.leftovers = {{}}, !.targets = {"canonical", "appended"},
                            !.texts = {<<>>, <<"hello">>}]
InitLive == InitFor(LiveEnv)
NextLive == NextFor(LiveEnv)
FairSpec == InitLive /\ [][NextLive]_vars /\ WF_vars(Progress(LiveEnv))

\* Requests that overlap.
InitOverlap == InitFor(OverlapEnv)
NextOverlap == NextFor(OverlapEnv)
SpecOverlap == InitOverlap /\ [][NextOverlap]_vars

(***************************************************************************)
(* Vocabulary of the properties                                            *)
(***************************************************************************)

Started(j) == pc[j] # "idle"
Done(j) == pc[j] = "done"
Audio(j) == payload[j].audioPath
Result(j) == results[j][1]

\* <base> of an input <dir>/<base>.<ext>
BaseOf(a) == SubSeq(a.name, 1, Len(a.name) - 1)

\* The canonical output, the temporary waveform and the diagnostic log of an
\* input, as the program names them.
CanonicalOf(a) == [dir |-> a.dir, name |-> BaseOf(a) \o <<".txt">>]
TempOf(a) == [dir |-> a.dir, name |-> BaseOf(a) \o <<"__whisper_tmp", ".wav">>]
LogOf(a) == [dir |-> a.dir, name |-> BaseOf(a) \o <<".log", ".txt">>]

\* The input's extension is .wav, in any case.
WavInput(a) == a # NoPath /\ a.name[Len(a.name)] \in {".wav", ".WAV"}

\* The paths on which job j performed op, and how often it performed op.
Paths(j, op) == {trace[j][k].path : k \in {n \in 1..Len(trace[j]) : trace[j][n].op = op}}
Count(j, op) == Cardinality({k \in 1..Len(trace[j]) : trace[j][k].op = op})
Has(j, op) == Count(j, op) > 0

\* The conversion of job j was started, and it succeeded (the loop began).
Converted(j) == Has(j, "spawn ffmpeg") /\ Has(j, "snapshot")

\* No attempt of the four variants matched, directly or by the heuristic,
\* and the last captured stdout is empty after trimming.
Exhausted(j) ==
    /\ Count(j, "spawn whisper") = 4
    /\ Count(j, "readdir") = 4
    /\ ~Has(j, "readFile") /\ ~Has(j, "readFile failed")
    /\ \A k \in 1..Len(lastStdout[j]) : lastStdout[j][k] \in {" ", "\n"}

\* Job j wrote its diagnostic log; job j called writeFileSync for it.
LogWritten(j) == LogOf(Audio(j)) \in Paths(j, "writeFile")
LogAttempted(j) == LogOf(Audio(j)) \in Paths(j, "writeFile") \cup Paths(j, "writeFile failed")

(***************************************************************************)
(* C1                                                                      *)
(***************************************************************************)

\* C1: for a non-.wav input whose conversion succeeded, the temporary
\* waveform is absent from disk when the handler has returned, on every path
\* that returns a result, the failures caused by a read or write error
\* included.  (Stated with the concession that an unlinkSync that itself
\* fails cannot remove the file.)
C1_TempAbsentAtReturn ==
    \A j \in Jobs :
        (Done(j) /\ Converted(j) /\ ~WavInput(Audio(j)) /\ ~Has(j, "unlink failed"))
        => TempOf(Audio(j)) \notin DOMAIN fs

(***************************************************************************)
(* C2                                                                      *)
(***************************************************************************)

\* C2: when the conversion fails, the job has failed and no file exists at the
\* temporary path when the failed result is returned, whatever the converter
\* did.
C2_NoTempAfterFailedConversion ==
    \A j \in Jobs :
        (Done(j) /\ Has(j, "spawn ffmpeg") /\ ~Has(j, "snapshot"))
        => (~Result(j).ok /\ TempOf(Audio(j)) \notin DOMAIN fs)

(***************************************************************************)
(* C3                                                                      *)
(***************************************************************************)

\* C3 as stated: a job has written a diagnostic log if and only if no attempt
\* matched and the last stdout is empty after trimming.
C3_LogIffExhausted ==
    \A j \in Jobs : Done(j) => (LogWritten(j) <=> Exhausted(j))

\* C3 as amended: the job calls writeFileSync for the diagnostic log if and
\* only if no attempt matched and the last stdout is empty after trimming; the
\* log is written if and only if, moreover, that call does not throw; on every
\* other path the log is not written.
C3_LogIffExhaustedAndWritable ==
    \A j \in Jobs :
        /\ Done(j) => (LogAttempted(j) <=> Exhausted(j))
        /\ Done(j) => (LogWritten(j) <=> (Exhausted(j) /\ ~Has(j, "writeFile failed")))
        /\ ~Done(j) => ~LogAttempted(j)

C3_Witness ==
    \E j \in Jobs : Done(j) /\ Exhausted(j) /\ LogWritten(j) /\ lastStdout[j] = <<" ">>

(***************************************************************************)
(* C4                                                                      *)
(***************************************************************************)

\* C4: whenever the job has returned a result with ok = true, the canonical
\* output <dir>/<base>.txt exists and is not empty.
C4_OkMeansCanonicalNonEmpty ==
    \A j \in Jobs :
        (Done(j) /\ Result(j).ok)
        => (CanonicalOf(Audio(j)) \in DOMAIN fs /\ Len(fs[CanonicalOf(Audio(j))]) > 0)

C4_Witness ==
    \E j \in Jobs : Done(j) /\ Result(j).ok /\ Has(j, "readFile")
                    /\ fs[CanonicalOf(Audio(j))] = <<"hello">>

(***************************************************************************)
(* C5                                                                      *)
(***************************************************************************)

\* C5: every invocation of the job eventually returns exactly one result, ok
\* or failed, when every spawned process ends; the transcriber is invoked at
\* most four times per job; a job has a result exactly when it is done.
C5_Terminates ==
    /\ \A j \in Jobs : Started(j) ~> (Done(j) /\ Len(results[j]) = 1 /\ Result(j).ok \in BOOLEAN)
    /\ [](\A j \in Jobs : /\ Count(j, "spawn whisper") <= 4
                          /\ Len(results[j]) = (IF Done(j) THEN 1 ELSE 0))

C5_Witness ==
    \E j \in Jobs : Done(j) /\ Count(j, "spawn whisper") = 4 /\ Len(results[j]) = 1

(***************************************************************************)
(* C6                                                                      *)
(***************************************************************************)

\* C6: every error raised inside the job (missing input, conversion error,
\* a failing read or write) ends as one returned result with ok = false and a
\* non-empty error message, nothing propagates out of the handler, and a
\* failing unlinkSync never makes a job fail: a job in which a deletion
\* failed returns ok, unless it is the exhaustion failure it was to return
\* anyway.
C6_ErrorsBecomeFailedResults ==
    \A j \in Jobs :
        Done(j) =>
            /\ Len(results[j]) = 1
            /\ "ok" \in DOMAIN Result(j)
            /\ ~Result(j).ok => ("error" \in DOMAIN Result(j) /\ Len(Result(j).error) > 0)
            /\ (Has(j, "readFile failed") \/ Has(j, "writeFile failed")) => ~Result(j).ok
            /\ (~Has(j, "existsSync") \/ Audio(j) \notin DOMAIN fs) => ~Result(j).ok
            /\ (Has(j, "spawn ffmpeg") /\ ~Has(j, "snapshot")) => ~Result(j).ok
            /\ (Has(j, "unlink failed") /\ ~Has(j, "readFile failed") /\ ~Has(j, "writeFile failed"))
               => (Result(j).ok \/ (Exhausted(j) /\ LogWritten(j)))

C6_Witness ==
    \E j \in Jobs : Done(j) /\ Has(j, "unlink failed") /\ Result(j).ok /\ Has(j, "readFile")

(***************************************************************************)
(* C7                                                                      *)
(***************************************************************************)

InFlight == {p \in procs : p.status = "running"}

\* C7 as stated: at most one external process is in flight at any instant,
\* over all invocations of the handler.
C7_OneProcessInFlight == Cardinality(InFlight) <= 1

\* C7 as amended: at most one external process of each invocation of the
\* handler is in flight at any instant; the processes of two overlapping
\* invocations can be in flight together.
C7_OneProcessPerJob ==
    \A j \in Jobs : Cardinality({p \in InFlight : p.job = j}) <= 1

C7_Witness ==
    \E p \in InFlight, q \in InFlight : p.job # q.job /\ p.kind = "ffmpeg" /\ q.kind = "whisper"

(***************************************************************************)
(* C8                                                                      *)
(***************************************************************************)

\* The canonical output of job j existed with content when j took its snapshot.
CanonicalBefore(j) ==
    /\ Has(j, "snapshot")
    /\ CanonicalOf(Audio(j)) \in DOMAIN fsAtSnapshot[j]
    /\ Len(fsAtSnapshot[j][CanonicalOf(Audio(j))]) > 0

TxtFiles(f) == {p \in DOMAIN f : toLowerCaseTok(p.name[Len(p.name)]) = ".txt"}

\* C8 as stated: if the canonical output exists with content before any
\* attempt runs, the job performs no heuristic scan, invokes no variant but
\* the first, reads, writes and deletes no .txt file, and returns ok with the
\* canonical path.
C8_PreexistingCanonicalAccepted ==
    \A j \in Jobs :
        CanonicalBefore(j) =>
            /\ ~Has(j, "readdir")
            /\ Count(j, "spawn whisper") = 1
            /\ ~Has(j, "readFile") /\ ~Has(j, "writeFile") /\ ~Has(j, "writeFile failed")
            /\ Paths(j, "unlink") \cup Paths(j, "unlink failed") \subseteq {TempOf(Audio(j))}
            /\ Done(j) => Result(j) = [ok |-> TRUE, outputPath |-> CanonicalOf(Audio(j))]

\* C8 as amended: if the canonical output exists with content before any
\* attempt runs and still does when the first variant's invocation has ended,
\* the resolution check after that invocation accepts it: the job returns ok
\* with the canonical path, having made no heuristic scan, invoked no further
\* variant, and read, written or deleted no .txt file.
C8_CanonicalAtFirstCheckAccepted ==
    [][\A j \in Jobs :
        (/\ pc[j] = "awaitWhisper" /\ i[j] = 0 /\ trace'[j] # trace[j]
         /\ CanonicalBefore(j)
         /\ CanonicalOf(Audio(j)) \in DOMAIN fs
         /\ Len(fs[CanonicalOf(Audio(j))]) > 0)
        => (/\ pc'[j] = "done"
            /\ results'[j] = <<[ok |-> TRUE, outputPath |-> CanonicalOf(Audio(j))]>>
            /\ \A k \in (Len(trace[j]) + 1)..Len(trace'[j]) :
                  \/ trace'[j][k] = Ev("check direct", CanonicalOf(Audio(j)), 0)
                  \/ (trace'[j][k].op \in {"unlink", "unlink failed"}
                      /\ trace'[j][k].path = TempOf(Audio(j)))
            /\ Count(j, "spawn whisper") = 1
            /\ TxtFiles(fs') = TxtFiles(fs)
            /\ \A p \in TxtFiles(fs) : fs'[p] = fs[p])]_vars

C8_Witness ==
    \E j \in Jobs : Done(j) /\ CanonicalBefore(j) /\ Result(j).ok /\ Count(j, "spawn whisper") = 1
                    /\ fs[CanonicalOf(Audio(j))] = <<"old">>

(***************************************************************************)
(* C9                                                                      *)
(***************************************************************************)

\* C9: for an input whose extension is .wav in any case, the converter is
\* never invoked, no temporary file is created, and the job neither deletes
\* nor overwrites the input.
C9_WavInputUntouched ==
    \A j \in Jobs :
        (Started(j) /\ WavInput(Audio(j))) =>
            /\ ~Has(j, "spawn ffmpeg")
            /\ \A p \in procs : p.job = j => p.kind # "ffmpeg"
            /\ TempOf(Audio(j)) \notin DOMAIN fs
            /\ Audio(j) \in DOMAIN fs /\ fs[Audio(j)] = <<"audio">>
            /\ Audio(j) \notin Paths(j, "unlink") \cup Paths(j, "unlink failed")
                              \cup Paths(j, "writeFile") \cup Paths(j, "writeFile failed")

C9_Witness ==
    \E j \in Jobs : Done(j) /\ Audio(j) = AudioWAV /\ Result(j).ok /\ Has(j, "writeFile")

(***************************************************************************)
(* C10                                                                     *)
(***************************************************************************)

\* The diagnostic log of job j is on disk, holds the captured stdout and
\* stderr of the last attempt under their labels, and the failed result
\* names its path.
LogDelivered(j) ==
    /\ LogOf(Audio(j)) \in DOMAIN fs
    /\ Contains(fs[LogOf(Audio(j))],
                <<"--- STDOUT ---\n">> \o (IF lastStdout[j] = <<>> THEN <<"(empty)">> ELSE lastStdout[j]))
    /\ Contains(fs[LogOf(Audio(j))],
                <<"--- STDERR ---\n">> \o (IF lastStderr[j] = <<>> THEN <<"(empty)">> ELSE lastStderr[j]))
    /\ ~Result(j).ok
    /\ Contains(Result(j).error, <<LogOf(Audio(j)).dir, "/">> \o LogOf(Audio(j)).name)

\* C10 as stated: when all four variants were inconclusive and the last
\* stdout is empty after trimming, the log is on disk with both captures and
\* the error message names it.
C10_ExhaustionLeavesLog ==
    \A j \in Jobs : (Done(j) /\ Exhausted(j)) => LogDelivered(j)

\* C10 as amended: the same, unless writing the log itself throws; then the
\* job returns that error's message and has completed no write of the log.
C10_ExhaustionLeavesLogUnlessWriteFails ==
    \A j \in Jobs :
        (Done(j) /\ Exhausted(j)) =>
            IF Has(j, "writeFile failed")
            THEN ~LogWritten(j) /\ ~Result(j).ok
                 /\ Result(j).error = FsError("open", LogOf(Audio(j))).message
            ELSE LogDelivered(j)

C10_Witness ==
    \E j \in Jobs : Done(j) /\ Exhausted(j) /\ LogWritten(j)
                    /\ lastStdout[j] = <<" ">> /\ lastStderr[j] = <<"warn">>

(***************************************************************************)
(* C11                                                                     *)
(***************************************************************************)

\* The operations of the trace by which a job touches the world beyond asking
\* whether a file exists.
Work == {"spawn ffmpeg", "snapshot", "spawn whisper", "check direct", "readdir", "readFile",
         "readFile failed", "writeFile", "writeFile failed", "unlink", "unlink failed"}

\* C11: when the request's audio path is empty or names no existing file, the
\* handler returns the failed result at once: the step that takes the request
\* ends the job with 'Audio path is empty or not found.', spawns no process,
\* lists no directory, and leaves every file as it was.
C11_MissingInputFailsFirst ==
    [][\A j \in Jobs :
        (/\ pc[j] = "idle" /\ pc'[j] # "idle"
         /\ (payload'[j].audioPath = NoPath \/ payload'[j].audioPath \notin DOMAIN fs))
        => (/\ pc'[j] = "done"
            /\ results'[j] = <<[ok |-> FALSE, error |-> <<"Audio path is empty or not found.">>]>>
            /\ procs' = procs
            /\ fs' = fs /\ order' = order
            /\ \A k \in 1..Len(trace'[j]) : trace'[j][k].op \notin Work)]_vars

C11_Witness ==
    \E j \in Jobs : Done(j) /\ Audio(j) = AudioGone /\ ~Result(j).ok
                    /\ trace[j] = <<Ev("existsSync", AudioGone, 0)>> /\ procs = {}

(***************************************************************************)
(* C12                                                                     *)
(***************************************************************************)

\* The paths job j has used: the canonical output is the path of every
\* resolution check, the temporary waveform (tmp) is the file ffmpeg is told
\* to write, the file the transcriber is told to read and the file the
\* cleanup deletes, and every write goes to the canonical output or, after
\* exhaustion, to the diagnostic log.
PathsUsed(j, tmp) ==
    /\ Paths(j, "check direct") \subseteq {CanonicalOf(Audio(j))}
    /\ Paths(j, "spawn ffmpeg") \subseteq {tmp}
    /\ \A p \in procs :
          p.job = j =>
            /\ p.kind = "ffmpeg" => (p.out = tmp /\ p.args[Len(p.args)] = pathString(tmp))
            /\ p.kind = "whisper" =>
                  p.args[2] = pathString(IF WavInput(Audio(j)) THEN Audio(j) ELSE tmp)
    /\ (Done(j) /\ Result(j).ok) => Result(j).outputPath = CanonicalOf(Audio(j))
    /\ Paths(j, "writeFile") \cup Paths(j, "writeFile failed")
          \subseteq {CanonicalOf(Audio(j)), LogOf(Audio(j))}
    /\ (Done(j) /\ Exhausted(j)) =>
          Paths(j, "writeFile") \cup Paths(j, "writeFile failed") = {LogOf(Audio(j))}

NewEvents(j) == SubSeq(trace'[j], Len(trace[j]) + 1, Len(trace'[j]))
NewOps(j) == {NewEvents(j)[k].op : k \in 1..Len(NewEvents(j))}

\* The index of the last variant.
LastVariant(j) == Len(variants(World, payload[j])) - 1

\* C13: however the transcriber of an attempt ended (exit 0, exit 1, killed
\* by the timeout, not spawned), the handler resumes with the resolution of
\* that attempt, beginning with the direct check; when the resolution is
\* inconclusive (scan made, no file read) the next variant is spawned, or the
\* fallback taken after the last; and a failed result comes only from an fs
\* call that threw or from exhaustion after the last variant.
C13_AttemptAlwaysResolved ==
    [][\A j \in Jobs :
        (pc[j] = "awaitWhisper" /\ trace'[j] # trace[j]) =>
            /\ NewEvents(j)[1] = Ev("check direct", CanonicalOf(Audio(j)), i[j])
            /\ "readdir" \notin NewOps(j) => (pc'[j] = "done" /\ results'[j][1].ok)
            /\ ("readdir" \in NewOps(j) /\ NewOps(j) \cap {"readFile", "readFile failed"} = {}) =>
                  IF i[j] < LastVariant(j)
                  THEN /\ pc'[j] = "awaitWhisper" /\ i'[j] = i[j] + 1
                       /\ NewEvents(j)[Len(NewEvents(j))] = Ev("spawn whisper", NoPath, i[j] + 1)
                       /\ \E p \in procs' : p.job = j /\ p.kind = "whisper" /\ p.n = i[j] + 1
                                              /\ p.status = "running"
                  ELSE NewOps(j) \cap {"writeFile", "writeFile failed"} # {}
            /\ (pc'[j] = "done" /\ ~results'[j][1].ok) =>
                  \/ NewOps(j) \cap {"readFile failed", "writeFile failed"} # {}
                  \/ i[j] = LastVariant(j) /\ LogOf(Audio(j)) \in Paths(j, "writeFile")']_vars

\* The first attempt was killed by the timeout (nothing on stdout, a warning
\* on stderr, no file) and the second variant is running.
C13_Witness ==
    \E j \in Jobs : /\ pc[j] = "awaitWhisper" /\ i[j] = 1
                    /\ lastStdout[j] = <<>> /\ lastStderr[j] = <<"warn">>
                    /\ Count(j, "readdir") = 1
                    /\ \E p \in procs : p.job = j /\ p.kind = "whisper" /\ p.n = 1

(***************************************************************************)
(* C14                                                                     *)
(***************************************************************************)

\* The output directive of an argument list, and the directives in the order
\* the variants are declared (lines 90-93): explicit target file, alternate
\* output-file flag, output directory, none.
Directive(args) ==
    IF Len(args) >= 4 /\ args[4] \in {<<"-of">>, <<"--output-file">>, <<"-o">>} THEN args[4] ELSE <<>>

DeclaredOrder == << <<"-of">>, <<"--output-file">>, <<"-o">>, <<>> >>

\* The order of the operations of job j: the k-th transcriber spawned is
\* variant k; variant n > 0 is spawned right after the direct check and the
\* scan of attempt n - 1; the direct check of attempt n is the first thing
\* after the spawn of variant n; a scan follows the direct check of its
\* attempt; nothing is spawned after a file was selected; and every
\* transcriber process of the job carries the directive of its variant.
TraceOrdered(j) ==
    LET T == trace[j] IN
    /\ \A k \in 1..Len(T) :
          /\ T[k].op = "spawn whisper" =>
                /\ T[k].n = Cardinality({m \in 1..(k - 1) : T[m].op = "spawn whisper"})
                /\ T[k].n < Len(DeclaredOrder)
                /\ T[k].n > 0 =>
                      /\ k > 2
                      /\ T[k - 1] = Ev("readdir", join(Audio(j).dir, <<>>), T[k].n - 1)
                      /\ T[k - 2] = Ev("check direct", CanonicalOf(Audio(j)), T[k].n - 1)
          /\ T[k].op = "check direct" => (k > 1 /\ T[k - 1] = Ev("spawn whisper", NoPath, T[k].n))
          /\ T[k].op = "readdir" => (k > 1 /\ T[k - 1].op = "check direct" /\ T[k - 1].n = T[k].n)
          /\ T[k].op \in {"readFile", "readFile failed"} =>
                /\ k > 1 /\ T[k - 1].op = "readdir" /\ T[k - 1].n = T[k].n
                /\ \A m \in (k + 1)..Len(T) : T[m].op \notin {"spawn whisper", "check direct", "readdir"}
    /\ \A p \in procs :
          (p.job = j /\ p.kind = "whisper") =>
              /\ Directive(p.args) = DeclaredOrder[p.n + 1]
              /\ p.n = Count(j, "spawn whisper") - 1
    /\ Done(j) => \A p \in procs : p.job # j

\* C14: the variants run in declared order, each at most once, variant i + 1
\* only after attempt i was resolved as inconclusive, none after a match;
\* within an attempt the direct check comes first, and the scan of the
\* heuristic is made exactly when the direct check failed.
C14_VariantsInOrder ==
    [][\A j \in Jobs :
        /\ TraceOrdered(j)'
        /\ (pc[j] = "awaitWhisper" /\ trace'[j] # trace[j]) =>
              /\ "readdir" \in NewOps(j) <=>
                    ~(CanonicalOf(Audio(j)) \in DOMAIN fs /\ Len(fs[CanonicalOf(Audio(j))]) > 0)
              /\ "readdir" \notin NewOps(j) =>
                    (NewOps(j) \cap {"spawn whisper", "readFile", "writeFile"} = {} /\ pc'[j] = "done")]_vars

\* Two attempts were inconclusive and the third variant gave a direct match.
C14_Witness ==
    \E j \in Jobs : /\ Done(j) /\ Result(j).ok /\ Count(j, "spawn whisper") = 3
                    /\ Count(j, "check direct") = 3 /\ Count(j, "readdir") = 2
                    /\ ~Has(j, "readFile")

(***************************************************************************)
(* C15                                                                     *)
(***************************************************************************)

\* All four attempts of job j were resolved as inconclusive.
AllInconclusive(j) ==
    /\ Count(j, "spawn whisper") = Len(DeclaredOrder)
    /\ Count(j, "readdir") = Len(DeclaredOrder)
    /\ ~Has(j, "readFile") /\ ~Has(j, "readFile failed")

\* The stdout captured from the latest attempt has a character that is not
\* whitespace.
LastStdoutHasText(j) == \E k \in 1..Len(lastStdout[j]) : lastStdout[j][k] \notin {" ", "\n"}

\* Job j called writeFileSync after the loop (lines 124, 132), on path p.
WroteAfterLoop(j, ops, p) ==
    \E k \in 1..Len(trace[j]) :
        trace[j][k].op \in ops /\ trace[j][k].n = Len(DeclaredOrder) /\ trace[j][k].path = p

FallbackResult(j) ==
    [ok |-> TRUE, outputPath |-> CanonicalOf(Audio(j)), note |-> <<"Saved from stdout fallback.">>]

\* Where the fallback is reached and what a note means, common to both forms
\* of C15: the fallback writes only after four inconclusive attempts and only
\* a last stdout that has text; a result has a note only when the fallback
\* wrote the canonical output.
FallbackOnlyAfterLoop(j) ==
    /\ WroteAfterLoop(j, {"writeFile", "writeFile failed"}, CanonicalOf(Audio(j)))
          => (AllInconclusive(j) /\ LastStdoutHasText(j))
    /\ (Done(j) /\ "note" \in DOMAIN Result(j))
          => (Result(j) = FallbackResult(j) /\ WroteAfterLoop(j, {"writeFile"}, CanonicalOf(Audio(j))))

\* C15 as stated: after four inconclusive attempts, if the last captured
\* stdout is not empty after trimming, the canonical output holds that stdout
\* verbatim and the result is ok with the note.
C15_StdoutFallback ==
    \A j \in Jobs :
        /\ FallbackOnlyAfterLoop(j)
        /\ (Done(j) /\ AllInconclusive(j) /\ LastStdoutHasText(j)) =>
              /\ CanonicalOf(Audio(j)) \in DOMAIN fs
              /\ fs[CanonicalOf(Audio(j))] = lastStdout[j]
              /\ Result(j) = FallbackResult(j)

\* C15 as amended: the same when the write of the canonical output does not
\* throw; when it throws, the result is failed, has no note, and the
\* canonical output does not hold the stdout.
C15_StdoutFallbackUnlessWriteFails ==
    \A j \in Jobs :
        /\ FallbackOnlyAfterLoop(j)
        /\ (Done(j) /\ AllInconclusive(j) /\ LastStdoutHasText(j)) =>
              IF Has(j, "writeFile failed")
              THEN /\ ~Result(j).ok /\ "note" \notin DOMAIN Result(j)
                   /\ CanonicalOf(Audio(j)) \in DOMAIN fs => fs[CanonicalOf(Audio(j))] # lastStdout[j]
              ELSE /\ CanonicalOf(Audio(j)) \in DOMAIN fs
                   /\ fs[CanonicalOf(Audio(j))] = lastStdout[j]
                   /\ Result(j) = FallbackResult(j)

\* The fallback saved a stdout that begins and ends with whitespace.
C15_Witness ==
    \E j \in Jobs : /\ Done(j) /\ Result(j) = FallbackResult(j)
                    /\ lastStdout[j] = <<" ", "text", "\n">>
                    /\ fs[CanonicalOf(Audio(j))] = <<" ", "text", "\n">>

(***************************************************************************)
(* C16                                                                     *)
(***************************************************************************)

\* The .txt files of the audio directory of job j that were not there when
\* the job took its snapshot, and among them the one modified last.
NewTxtAt(j) == {p \in TxtFiles(fs) : p.dir = Audio(j).dir /\ p \notin TxtFiles(fsAtSnapshot[j])}
Rank(p) == CHOOSE k \in 1..Len(order) : order[k] = p
NewestNew(j) == CHOOSE p \in NewTxtAt(j) : \A q \in NewTxtAt(j) : Rank(q) <= Rank(p)

\* The canonical output is absent or empty: the direct match fails.
DirectFails(j) == ~(CanonicalOf(Audio(j)) \in DOMAIN fs /\ Len(fs[CanonicalOf(Audio(j))]) > 0)

\* C16: in an attempt where the direct match fails, the heuristic takes the
\* newest of the .txt files absent from the snapshot; when that file is empty
\* (or there is none) the attempt is inconclusive, whatever older new files
\* hold; when it is not empty, the canonical output becomes equal to that
\* file's content, the file is deleted if and only if its normalized path
\* differs from the canonical one, and the job returns ok.  (Stated for the
\* attempts in which no fs call throws.)
C16_HeuristicCopiesNewest ==
    [][\A j \in Jobs :
        (pc[j] = "awaitWhisper" /\ trace'[j] # trace[j] /\ DirectFails(j)) =>
            IF NewTxtAt(j) = {} \/ fs[NewestNew(j)] = <<>>
            THEN /\ NewOps(j) \cap {"readFile", "readFile failed"} = {}
                 /\ IF i[j] < LastVariant(j) THEN pc'[j] = "awaitWhisper"
                    ELSE NewOps(j) \cap {"writeFile", "writeFile failed"} # {}
            ELSE NewOps(j) \cap {"readFile failed", "writeFile failed", "unlink failed"} = {} =>
                 /\ \E k \in 1..Len(NewEvents(j)) : NewEvents(j)[k] = Ev("readFile", NewestNew(j), i[j])
                 /\ CanonicalOf(Audio(j)) \in DOMAIN fs'
                 /\ fs'[CanonicalOf(Audio(j))] = fs[NewestNew(j)]
                 /\ NewestNew(j) \in DOMAIN fs' <=> normalize(NewestNew(j)) = normalize(CanonicalOf(Audio(j)))
                 /\ pc'[j] = "done"
                 /\ results'[j] = <<[ok |-> TRUE, outputPath |-> CanonicalOf(Audio(j))]>>]_vars

(***************************************************************************)
(* C17                                                                     *)
(***************************************************************************)

\* How often job j has called writeFileSync on its canonical output.
CanonicalWrites(j) ==
    Cardinality({k \in 1..Len(trace[j]) :
                    /\ trace[j][k].op \in {"writeFile", "writeFile failed"}
                    /\ trace[j][k].path = CanonicalOf(Audio(j))})

\* C17: a job writes its canonical output at most once; an attempt whose
\* direct check finds the canonical output reads and writes nothing and
\* returns it; a write of the heuristic follows the reading of the selected
\* file in the same attempt; and the fallback writes only in a job none of
\* whose attempts matched.
C17_OneProvenance ==
    [][\A j \in Jobs :
        /\ CanonicalWrites(j)' <= 1
        /\ (pc[j] = "awaitWhisper" /\ trace'[j] # trace[j] /\ ~DirectFails(j)) =>
              /\ NewOps(j) \cap {"readdir", "readFile", "writeFile", "writeFile failed"} = {}
              /\ results'[j] = <<[ok |-> TRUE, outputPath |-> CanonicalOf(Audio(j))]>>
              /\ fs'[CanonicalOf(Audio(j))] = fs[CanonicalOf(Audio(j))]
        /\ \A k \in 1..Len(trace'[j]) :
              (/\ trace'[j][k].op \in {"writeFile", "writeFile failed"}
               /\ trace'[j][k].path = CanonicalOf(Audio(j))
               /\ trace'[j][k].n < Len(DeclaredOrder))
              => (k > 1 /\ trace'[j][k - 1].op = "readFile" /\ trace'[j][k - 1].n = trace'[j][k].n)
        /\ WroteAfterLoop(j, {"writeFile", "writeFile failed"}, CanonicalOf(Audio(j)))'
              => AllInconclusive(j)']_vars

\* Two attempts were inconclusive and the third was matched by the heuristic.
C17_Witness ==
    \E j \in Jobs : /\ Done(j) /\ Result(j) = [ok |-> TRUE, outputPath |-> CanonicalOf(Audio(j))]
                    /\ Count(j, "readdir") = 3 /\ Count(j, "readFile") = 1
                    /\ CanonicalWrites(j) = 1

(***************************************************************************)
(* C18                                                                     *)
(***************************************************************************)

\* The .txt files that were in the directory when job j took its snapshot.
InSnapshot(j) == TxtFiles(fsAtSnapshot[j])

ReturnsFailure(j) == pc[j] # "done" /\ pc'[j] = "done" /\ ~results'[j][1].ok
IsExhaustionFailure(res, a) == ~res.ok /\ Contains(res.error, pathString(LogOf(a)))

\* What the exhaustion failure implies, common to both forms of C19: the job
\* never called writeFileSync on its canonical output, all four attempts were
\* inconclusive, and the canonical output was absent or empty at the last
\* resolution check, made in this step, and still is.
ExhaustionLeavesNoCanonical(j) ==
    (ReturnsFailure(j) /\ IsExhaustionFailure(results'[j][1], payload'[j].audioPath)) =>
        /\ CanonicalWrites(j)' = 0
        /\ AllInconclusive(j)'
        /\ \E k \in 1..Len(NewEvents(j)) :
              NewEvents(j)[k] = Ev("check direct", CanonicalOf(Audio(j)), LastVariant(j))
        /\ DirectFails(j) /\ DirectFails(j)'

\* C19 as stated: moreover, when a job returns a failed result, its canonical
\* output does not hold content that the job put there.
C19_FailureLeavesNoCanonical ==
    [][\A j \in Jobs :
        /\ ExhaustionLeavesNoCanonical(j)
        /\ ReturnsFailure(j) => ~(CanonicalWrites(j)' > 0 /\ ~DirectFails(j)')]_vars

\* C19 as amended: moreover, when a job returns a failed result, no write of
\* the job to its canonical output has completed (a write that threw may have
\* left a part of the data there).
C19_FailureCompletedNoCanonicalWrite ==
    [][\A j \in Jobs :
        /\ ExhaustionLeavesNoCanonical(j)
        /\ ReturnsFailure(j) => CanonicalOf(payload'[j].audioPath) \notin Paths(j, "writeFile")']_vars

\* The exhaustion failure was returned while the canonical output, written
\* empty by the transcriber, lies in the directory.
C19_Witness ==
    \E j \in Jobs : /\ Done(j) /\ IsExhaustionFailure(Result(j), Audio(j)) /\ LogWritten(j)
                    /\ CanonicalOf(Audio(j)) \in DOMAIN fs /\ fs[CanonicalOf(Audio(j))] = <<>>

====
